---- MODULE Spec2Model ----
(***************************************************************************)
(* Box navigation (Framor81/boxnav): the geometric box model of            *)
(* src/box/box.py and the navigator state machine of                       *)
(* src/box/boxnavigator.py.                                                *)
(*                                                                         *)
(* Numbers.  Coordinates, distance_threshold and movement_increment are    *)
(* integers.  Angles of rotation are whole numbers of quarter turns (one   *)
(* unit = pi/2 radians), for which cos and sin are exactly -1, 0 or 1, so  *)
(* every position the navigator reaches stays on the integer grid.         *)
(* The signed angle atan2(det, dot) is kept as the pair (det, dot) it is   *)
(* computed from; comparing it with half_target_wedge uses the tangent.    *)
(***************************************************************************)
EXTENDS Integers, Sequences, FiniteSets, TLC

\* ------------------------------------------------------------------ bounds

\* take_action calls made in one run of the model
MaxCalls == 4

\* ---------------------------------------------------------------- box.py: Pt

Pt(x, y) == [x |-> x, y |-> y]

\* Pt.__sub__
PtSub(a, b) == Pt(a.x - b.x, a.y - b.y)

\* Pt.scalar_product
scalar_product(A, B) == A.x * B.x + A.y * B.y

\* Pt.determinant
determinant(A, B) == A.x * B.y - A.y * B.x

\* math.cos and math.sin of a whole number of quarter turns
cos(rotation) ==
    CASE rotation % 4 = 0 -> 1
      [] rotation % 4 = 1 -> 0
      [] rotation % 4 = 2 -> -1
      [] rotation % 4 = 3 -> 0

sin(rotation) ==
    CASE rotation % 4 = 0 -> 0
      [] rotation % 4 = 1 -> 1
      [] rotation % 4 = 2 -> 0
      [] rotation % 4 = 3 -> -1

\* Pt.magnitude, squared: sqrt is increasing, so comparing magnitudes is
\* comparing their squares.
magnitude_squared(v) == v.x * v.x + v.y * v.y

\* close_enough(A, B, threshold): (A - B).magnitude() < threshold
close_enough(A, B, threshold) ==
    /\ threshold > 0
    /\ magnitude_squared(PtSub(A, B)) < threshold * threshold

\* math.atan2(det, dot), kept as its two arguments.  When det is zero and dot
\* is negative the result is pi or -pi with the sign of the floating-point
\* zero; minus_pi says which.
atan2(det, dot, neg_zero) ==
    [det |-> det, dot |-> dot, minus_pi |-> (det = 0 /\ dot < 0 /\ neg_zero)]

\* Pt.angle_between
angle_between(self, other, neg_zero) ==
    atan2(determinant(self, other), scalar_product(self, other), neg_zero)

\* tan(wedge) in millionths, for the wedge the program uses: radians(6),
\* tan(6 degrees) = 0.105104...
TanMillionths(degrees) ==
    CASE degrees = 6 -> 105104

\* abs(angle) < wedge, for a wedge below a quarter turn
AbsAngleLess(angle, wedge) ==
    \/ angle.det = 0 /\ angle.dot = 0
    \/ /\ angle.dot > 0
       /\ (IF angle.det < 0 THEN -angle.det ELSE angle.det) * 1000000
            < TanMillionths(wedge) * angle.dot

\* angle > 0
AnglePositive(angle) ==
    \/ angle.det > 0
    \/ angle.det = 0 /\ angle.dot < 0 /\ ~angle.minus_pi

\* --------------------------------------------------------------- box.py: Box

\* rotate_point(corner, rotation)
rotate_point(corner, rotation) ==
    Pt(corner.x * cos(rotation) - corner.y * sin(rotation),
       corner.y * cos(rotation) + corner.x * sin(rotation))

\* rotate_box leaving the corner C where it was
rotate_box_two_corners(self) ==
    [self EXCEPT !.A = rotate_point(self.A, self.rotation),
                 !.B = rotate_point(self.B, self.rotation),
                 !.target = rotate_point(self.target, self.rotation)]

\* Box.rotate_box: the three corners and the target, rotated about the origin
rotate_box(self) ==
    [self EXCEPT !.A = rotate_point(self.A, self.rotation),
                 !.B = rotate_point(self.B, self.rotation),
                 !.C = rotate_point(self.C, self.rotation),
                 !.target = rotate_point(self.target, self.rotation)]

\* Box.__init__ (the fields used for drawing are left out)
Box(lower_left, upper_left, upper_right, target, rotation) ==
    LET stored == [A |-> lower_left, B |-> upper_left, C |-> upper_right,
                   target |-> target, rotation |-> rotation]
        self == IF rotation # 0 THEN rotate_box(stored) ELSE stored
        AB == PtSub(self.B, self.A)
        BC == PtSub(self.C, self.B)
    IN  [A |-> self.A, B |-> self.B, C |-> self.C, target |-> self.target,
         rotation |-> self.rotation,
         AB |-> AB, dotAB |-> scalar_product(AB, AB),
         BC |-> BC, dotBC |-> scalar_product(BC, BC)]

\* point_is_inside leaving out the far edges
point_is_inside_open(self, M) ==
    LET AM == PtSub(M, self.A)
        BM == PtSub(M, self.B)
    IN  /\ 0 <= scalar_product(self.AB, AM)
        /\ scalar_product(self.AB, AM) < self.dotAB
        /\ 0 <= scalar_product(self.BC, BM)
        /\ scalar_product(self.BC, BM) < self.dotBC

\* Box.point_is_inside
point_is_inside(self, M) ==
    LET AM == PtSub(M, self.A)
        BM == PtSub(M, self.B)
    IN  /\ 0 <= scalar_product(self.AB, AM)
        /\ scalar_product(self.AB, AM) <= self.dotAB
        /\ 0 <= scalar_product(self.BC, BM)
        /\ scalar_product(self.BC, BM) <= self.dotBC

\* aligned_box with the lower right corner for the upper right one
aligned_box_lower_right(left, right, lower, upper, target, rotation) ==
    LET ll == Pt(left, lower)
        ul == Pt(left, upper)
        lr == Pt(right, lower)
        t == Pt(target[1], target[2])
    IN  Box(ll, ul, lr, t, rotation)

\* aligned_box
aligned_box(left, right, lower, upper, target, rotation) ==
    LET ll == Pt(left, lower)
        ul == Pt(left, upper)
        ur == Pt(right, upper)
        t == Pt(target[1], target[2])
    IN  Box(ll, ul, ur, t, rotation)

\* BoxEnv.get_boxes_enclosing_point: every box, in environment order, that
\* the point is inside
get_boxes_enclosing_point(boxes, pt) ==
    SelectSeq(boxes, LAMBDA b : point_is_inside(b, pt))

\* --------------------------------------------------- boxnavigator.py: Action

FORWARD == "FORWARD"
BACKWARD == "BACKWARD"
ROTATE_LEFT == "ROTATE_LEFT"
ROTATE_RIGHT == "ROTATE_RIGHT"

\* class Action
Action == {FORWARD, BACKWARD, ROTATE_LEFT, ROTATE_RIGHT}

\* A value that is none of the four actions, as an overriding
\* navigator_specific_action may return (None, a number, a string)
UnknownAction == "UNKNOWN"

\* A call either returns a value or raises: [self, ret, raised], self being
\* the object as the call leaves it.
NoException == "none"
Return(self, ret) == [self |-> self, ret |-> ret, raised |-> NoException]
Raise(self, exception) == [self |-> self, ret |-> "None", raised |-> exception]

\* The value of one statement, named for the statements after it: body is
\* evaluated with the value itself, once worked out
Bind(value, body(_)) == CHOOSE result \in {body(v) : v \in {value}} : TRUE

\* Python truth of a returned True, False or None
Truthy(ret) == ret = "True"

\* ----------------------------------------- boxnavigator.py: BoxNavigatorBase

\* radians(6), in degrees
HalfTargetWedgeDegrees == 6

\* __init__ starting in the last box of the environment instead of the first
BoxNavigatorBase_last_box(position, rotation, env, distance_threshold, movement_increment, rotation_increment) ==
    [class |-> "BoxNavigatorBase",
     env |-> env,
     position |-> position,
     rotation |-> rotation,
     target |-> env[1].target,
     final_target |-> env[Len(env)].target,
     distance_threshold |-> distance_threshold,
     movement_increment |-> movement_increment,
     rotation_increment |-> rotation_increment,
     half_target_wedge |-> 6,
     actions_taken |-> 0,
     current_box |-> env[Len(env)],
     valid_movement |-> FALSE,
     signed_angle_to_target |-> atan2(0, 0, FALSE)]

\* BoxNavigatorBase.__init__.  valid_movement and signed_angle_to_target do
\* not exist before the first take_action, which writes both before anything
\* reads them; they start at a placeholder.
BoxNavigatorBase(position, rotation, env, distance_threshold, movement_increment, rotation_increment) ==
    [class |-> "BoxNavigatorBase",
     env |-> env,
     position |-> position,
     rotation |-> rotation,
     target |-> env[1].target,
     final_target |-> env[Len(env)].target,
     distance_threshold |-> distance_threshold,
     movement_increment |-> movement_increment,
     rotation_increment |-> rotation_increment,
     half_target_wedge |-> HalfTargetWedgeDegrees,
     actions_taken |-> 0,
     current_box |-> env[1],
     valid_movement |-> FALSE,
     signed_angle_to_target |-> atan2(0, 0, FALSE)]

\* at_final_target counting a distance of exactly distance_threshold as there
at_final_target_inclusive(self) ==
    /\ self.distance_threshold > 0
    /\ magnitude_squared(PtSub(self.position, self.final_target))
         <= self.distance_threshold * self.distance_threshold

\* BoxNavigatorBase.at_final_target
at_final_target(self) ==
    close_enough(self.position, self.final_target, self.distance_threshold)

\* correct_action with the two rotations exchanged
correct_action_swapped(self, neg_zero) ==
    LET heading_vector == Pt(cos(self.rotation), sin(self.rotation))
        target_vector == PtSub(self.target, self.position)
        angle == angle_between(heading_vector, target_vector, neg_zero)
        s == [self EXCEPT !.signed_angle_to_target = angle]
    IN  IF AbsAngleLess(angle, self.half_target_wedge)
        THEN Return(s, FORWARD)
        ELSE IF AnglePositive(angle)
             THEN Return(s, ROTATE_RIGHT)
             ELSE Return(s, ROTATE_LEFT)

\* BoxNavigatorBase.correct_action.  normalized() divides each vector by a
\* positive number, which changes neither the sign of det and dot nor their
\* ratio, so the angle is that of the vectors as they are.
correct_action(self, neg_zero) ==
    LET heading_vector == Pt(cos(self.rotation), sin(self.rotation))
        target_vector == PtSub(self.target, self.position)
        angle == angle_between(heading_vector, target_vector, neg_zero)
        s == [self EXCEPT !.signed_angle_to_target = angle]
    IN  IF AbsAngleLess(angle, self.half_target_wedge)
        THEN Return(s, FORWARD)
        ELSE IF AnglePositive(angle)
             THEN Return(s, ROTATE_LEFT)
             ELSE Return(s, ROTATE_RIGHT)

\* BoxNavigatorBase.num_actions_taken
num_actions_taken(self) == self.actions_taken

\* update_target that never hands off
update_target_never(self) == self

\* update_target handing off wherever two boxes overlap, near the target or not
update_target_anywhere(self) ==
    LET surrounding_boxes == get_boxes_enclosing_point(self.env, self.position)
    IN  IF Len(surrounding_boxes) > 1
        THEN [self EXCEPT
                !.target = surrounding_boxes[Len(surrounding_boxes)].target,
                !.current_box = surrounding_boxes[Len(surrounding_boxes)]]
        ELSE self

\* update_target taking the new target and staying in the old box
update_target_target_only(self) ==
    LET surrounding_boxes == get_boxes_enclosing_point(self.env, self.position)
    IN  IF /\ close_enough(self.position, self.target, self.distance_threshold)
           /\ Len(surrounding_boxes) > 1
        THEN [self EXCEPT
                !.target = surrounding_boxes[Len(surrounding_boxes)].target]
        ELSE self

\* update_target making the new target the final target as well
update_target_moving_final(self) ==
    LET surrounding_boxes == get_boxes_enclosing_point(self.env, self.position)
    IN  IF /\ close_enough(self.position, self.target, self.distance_threshold)
           /\ Len(surrounding_boxes) > 1
        THEN [self EXCEPT
                !.target = surrounding_boxes[Len(surrounding_boxes)].target,
                !.final_target = surrounding_boxes[Len(surrounding_boxes)].target,
                !.current_box = surrounding_boxes[Len(surrounding_boxes)]]
        ELSE self

\* BoxNavigatorBase.update_target
update_target(self) ==
    LET surrounding_boxes == get_boxes_enclosing_point(self.env, self.position)
    IN  IF /\ close_enough(self.position, self.target, self.distance_threshold)
           /\ Len(surrounding_boxes) > 1
        THEN [self EXCEPT
                !.target = surrounding_boxes[Len(surrounding_boxes)].target,
                !.current_box = surrounding_boxes[Len(surrounding_boxes)]]
        ELSE self

\* BoxNavigatorBase.can_move_to_point
can_move_to_point(self, pt) == point_is_inside(self.current_box, pt)

\* BoxNavigatorBase.checked_move
checked_move(self, new_pt) ==
    IF point_is_inside(self.current_box, new_pt)
    THEN Return([self EXCEPT !.position = new_pt], "True")
    ELSE Return(self, "False")

\* move_forward without the validity gate
move_forward_ungated(self) ==
    LET new_x == self.position.x + self.movement_increment * cos(self.rotation)
        new_y == self.position.y + self.movement_increment * sin(self.rotation)
    IN  Return([self EXCEPT !.position = Pt(new_x, new_y)], "True")

\* move_backward without the validity gate
move_backward_ungated(self) ==
    LET new_x == self.position.x - self.movement_increment * cos(self.rotation)
        new_y == self.position.y - self.movement_increment * sin(self.rotation)
    IN  Return([self EXCEPT !.position = Pt(new_x, new_y)], "True")

\* move_backward that moves and then reports no move
move_backward_unreported(self) ==
    LET new_x == self.position.x - self.movement_increment * cos(self.rotation)
        new_y == self.position.y - self.movement_increment * sin(self.rotation)
    IN  IF can_move_to_point(self, Pt(new_x, new_y))
        THEN Return(checked_move(self, Pt(new_x, new_y)).self, "False")
        ELSE Return(self, "False")

\* move_forward that turns the navigator round when the move is rejected
move_forward_turning(self) ==
    LET new_x == self.position.x + self.movement_increment * cos(self.rotation)
        new_y == self.position.y + self.movement_increment * sin(self.rotation)
    IN  IF can_move_to_point(self, Pt(new_x, new_y))
        THEN Return(checked_move(self, Pt(new_x, new_y)).self, "True")
        ELSE Return([self EXCEPT !.rotation = self.rotation + 2], "None")

\* BoxNavigatorBase.move_forward: returns True after a move and falls off the
\* end (None) otherwise
move_forward(self) ==
    LET new_x == self.position.x + self.movement_increment * cos(self.rotation)
        new_y == self.position.y + self.movement_increment * sin(self.rotation)
    IN  IF can_move_to_point(self, Pt(new_x, new_y))
        THEN Return(checked_move(self, Pt(new_x, new_y)).self, "True")
        ELSE Return(self, "None")

\* BoxNavigatorBase.move_backward
move_backward(self) ==
    LET new_x == self.position.x - self.movement_increment * cos(self.rotation)
        new_y == self.position.y - self.movement_increment * sin(self.rotation)
    IN  IF can_move_to_point(self, Pt(new_x, new_y))
        THEN Return(checked_move(self, Pt(new_x, new_y)).self, "True")
        ELSE Return(self, "False")

\* rotate_left keeping rotation within one full turn
rotate_left_wrapped(self) ==
    [self EXCEPT !.rotation = (self.rotation + self.rotation_increment) % 4]

\* BoxNavigatorBase.rotate_right
rotate_right(self) ==
    [self EXCEPT !.rotation = self.rotation - self.rotation_increment]

\* BoxNavigatorBase.rotate_left
rotate_left(self) ==
    [self EXCEPT !.rotation = self.rotation + self.rotation_increment]

\* ------------------------------------------ boxnavigator.py: the strategies

\* PerfectNavigator.__init__
PerfectNavigator(position, rotation, env, distance_threshold, forward_increment, rotation_increment) ==
    [BoxNavigatorBase(position, rotation, env, distance_threshold,
                      forward_increment, rotation_increment)
       EXCEPT !.class = "PerfectNavigator"]

\* WanderingNavigator.__init__ with BACKWARD among the possible actions
WanderingNavigator_backward(position, rotation, env, distance_threshold, forward_increment, rotation_increment, chance_of_random_action) ==
    LET base == BoxNavigatorBase(position, rotation, env, distance_threshold,
                                 forward_increment, rotation_increment)
    IN  [f \in DOMAIN base \cup {"possible_actions", "chance_of_random_action"}
           |-> CASE f = "class" -> "WanderingNavigator"
                 [] f = "possible_actions" ->
                        <<FORWARD, BACKWARD, ROTATE_LEFT>>
                 [] f = "chance_of_random_action" -> chance_of_random_action
                 [] OTHER -> base[f]]

\* WanderingNavigator.__init__; chance_of_random_action is in percent
WanderingNavigator(position, rotation, env, distance_threshold, forward_increment, rotation_increment, chance_of_random_action) ==
    LET base == BoxNavigatorBase(position, rotation, env, distance_threshold,
                                 forward_increment, rotation_increment)
    IN  [f \in DOMAIN base \cup {"possible_actions", "chance_of_random_action"}
           |-> CASE f = "class" -> "WanderingNavigator"
                 [] f = "possible_actions" ->
                        <<FORWARD, ROTATE_LEFT, ROTATE_RIGHT>>
                 [] f = "chance_of_random_action" -> chance_of_random_action
                 [] OTHER -> base[f]]

\* A navigator whose navigator_specific_action is supplied by the caller: a
\* subclass that overrides the hook and returns whatever it is told to.
ScriptedNavigator(position, rotation, env, distance_threshold, forward_increment, rotation_increment) ==
    [BoxNavigatorBase(position, rotation, env, distance_threshold,
                      forward_increment, rotation_increment)
       EXCEPT !.class = "ScriptedNavigator"]

\* navigator_specific_action with a wandering navigator that takes a random
\* action when random() is at most, not below, chance_of_random_action
navigator_specific_action_inclusive(self, random, choice, scripted, neg_zero) ==
    CASE self.class = "PerfectNavigator" -> correct_action(self, neg_zero)
      [] self.class = "WanderingNavigator" ->
            IF random <= self.chance_of_random_action
            THEN Return(self, self.possible_actions[choice])
            ELSE correct_action(self, neg_zero)
      [] self.class = "ScriptedNavigator" -> Return(self, scripted)
      [] OTHER -> Raise(self, "NotImplementedError")

\* navigator_specific_action with a perfect navigator that always goes forward
navigator_specific_action_forward(self, random, choice, scripted, neg_zero) ==
    CASE self.class = "PerfectNavigator" -> Return(self, FORWARD)
      [] self.class = "WanderingNavigator" ->
            IF random < self.chance_of_random_action
            THEN Return(self, self.possible_actions[choice])
            ELSE correct_action(self, neg_zero)
      [] self.class = "ScriptedNavigator" -> Return(self, scripted)
      [] OTHER -> Raise(self, "NotImplementedError")

\* navigator_specific_action of each class.  random is random() in percent,
\* choice the index choice() draws, scripted the action a scripted navigator
\* is told to take.
navigator_specific_action(self, random, choice, scripted, neg_zero) ==
    CASE self.class = "PerfectNavigator" -> correct_action(self, neg_zero)
      [] self.class = "WanderingNavigator" ->
            IF random < self.chance_of_random_action
            THEN Return(self, self.possible_actions[choice])
            ELSE correct_action(self, neg_zero)
      [] self.class = "ScriptedNavigator" -> Return(self, scripted)
      [] OTHER -> Raise(self, "NotImplementedError")

\* take_action counting only the actions that changed something: a rejected
\* move returns before the counter
take_action_uncounted(self, random, choice, scripted, neg_zero) ==
    Bind(update_target(self), LAMBDA updated :
    Bind(navigator_specific_action(updated, random, choice, scripted, neg_zero),
         LAMBDA specific :
    IF specific.raised # NoException
    THEN Raise(specific.self, specific.raised)
    ELSE
    Bind(specific.ret, LAMBDA action_taken :
    Bind(correct_action(specific.self, neg_zero), LAMBDA correct :
    Bind([correct.self EXCEPT !.valid_movement = FALSE], LAMBDA cleared :
    LET done(s) == Return([s EXCEPT !.actions_taken = s.actions_taken + 1],
                          <<action_taken, correct.ret, s.valid_movement>>)
        rejected(s) == Return(s, <<action_taken, correct.ret, s.valid_movement>>)
    IN  CASE action_taken = FORWARD ->
                Bind(move_forward(cleared), LAMBDA forward :
                    IF Truthy(forward.ret)
                    THEN done([forward.self EXCEPT !.valid_movement = TRUE])
                    ELSE rejected(forward.self))
          [] action_taken = ROTATE_LEFT ->
                Bind(rotate_left(cleared), LAMBDA rotated : done(rotated))
          [] action_taken = ROTATE_RIGHT ->
                Bind(rotate_right(cleared), LAMBDA rotated : done(rotated))
          [] action_taken = BACKWARD ->
                Bind(move_backward(cleared), LAMBDA backward :
                    IF Truthy(backward.ret)
                    THEN done([backward.self EXCEPT !.valid_movement = TRUE])
                    ELSE rejected(backward.self))
          [] OTHER -> Raise(cleared, "NotImplementedError"))))))

\* take_action passing over an action it does not know: case _: pass
take_action_ignoring_unknown(self, random, choice, scripted, neg_zero) ==
    Bind(update_target(self), LAMBDA updated :
    Bind(navigator_specific_action(updated, random, choice, scripted, neg_zero),
         LAMBDA specific :
    IF specific.raised # NoException
    THEN Raise(specific.self, specific.raised)
    ELSE
    Bind(specific.ret, LAMBDA action_taken :
    Bind(correct_action(specific.self, neg_zero), LAMBDA correct :
    Bind([correct.self EXCEPT !.valid_movement = FALSE], LAMBDA cleared :
    LET done(s) == Return([s EXCEPT !.actions_taken = s.actions_taken + 1],
                          <<action_taken, correct.ret, s.valid_movement>>)
    IN  CASE action_taken = FORWARD ->
                Bind(move_forward(cleared), LAMBDA forward :
                    IF Truthy(forward.ret)
                    THEN done([forward.self EXCEPT !.valid_movement = TRUE])
                    ELSE done(forward.self))
          [] action_taken = ROTATE_LEFT ->
                Bind(rotate_left(cleared), LAMBDA rotated : done(rotated))
          [] action_taken = ROTATE_RIGHT ->
                Bind(rotate_right(cleared), LAMBDA rotated : done(rotated))
          [] action_taken = BACKWARD ->
                Bind(move_backward(cleared), LAMBDA backward :
                    IF Truthy(backward.ret)
                    THEN done([backward.self EXCEPT !.valid_movement = TRUE])
                    ELSE done(backward.self))
          [] OTHER -> done(cleared))))))

\* take_action working out the correct action last, after the action taken
\* has been applied
take_action_correct_last(self, random, choice, scripted, neg_zero) ==
    Bind(update_target(self), LAMBDA updated :
    Bind(navigator_specific_action(updated, random, choice, scripted, neg_zero),
         LAMBDA specific :
    IF specific.raised # NoException
    THEN Raise(specific.self, specific.raised)
    ELSE
    Bind(specific.ret, LAMBDA action_taken :
    Bind([specific.self EXCEPT !.valid_movement = FALSE], LAMBDA cleared :
    LET done(s) ==
            Bind(correct_action(s, neg_zero), LAMBDA correct :
            Return([correct.self EXCEPT !.actions_taken = s.actions_taken + 1],
                   <<action_taken, correct.ret, s.valid_movement>>))
    IN  CASE action_taken = FORWARD ->
                Bind(move_forward(cleared), LAMBDA forward :
                    IF Truthy(forward.ret)
                    THEN done([forward.self EXCEPT !.valid_movement = TRUE])
                    ELSE done(forward.self))
          [] action_taken = ROTATE_LEFT ->
                Bind(rotate_left(cleared), LAMBDA rotated : done(rotated))
          [] action_taken = ROTATE_RIGHT ->
                Bind(rotate_right(cleared), LAMBDA rotated : done(rotated))
          [] action_taken = BACKWARD ->
                Bind(move_backward(cleared), LAMBDA backward :
                    IF Truthy(backward.ret)
                    THEN done([backward.self EXCEPT !.valid_movement = TRUE])
                    ELSE done(backward.self))
          [] OTHER -> Raise(cleared, "NotImplementedError")))))

\* BoxNavigatorBase.take_action: update_target, the strategy's action, the
\* correct action, valid_movement = False, the match on the action, the
\* counter, the returned triple
take_action(self, random, choice, scripted, neg_zero) ==
    Bind(update_target(self), LAMBDA updated :
    Bind(navigator_specific_action(updated, random, choice, scripted, neg_zero),
         LAMBDA specific :
    IF specific.raised # NoException
    THEN Raise(specific.self, specific.raised)
    ELSE
    Bind(specific.ret, LAMBDA action_taken :
    Bind(correct_action(specific.self, neg_zero), LAMBDA correct :
    Bind([correct.self EXCEPT !.valid_movement = FALSE], LAMBDA cleared :
    LET done(s) == Return([s EXCEPT !.actions_taken = s.actions_taken + 1],
                          <<action_taken, correct.ret, s.valid_movement>>)
    IN  CASE action_taken = FORWARD ->
                Bind(move_forward(cleared), LAMBDA forward :
                    IF Truthy(forward.ret)
                    THEN done([forward.self EXCEPT !.valid_movement = TRUE])
                    ELSE done(forward.self))
          [] action_taken = ROTATE_LEFT ->
                Bind(rotate_left(cleared), LAMBDA rotated : done(rotated))
          [] action_taken = ROTATE_RIGHT ->
                Bind(rotate_right(cleared), LAMBDA rotated : done(rotated))
          [] action_taken = BACKWARD ->
                Bind(move_backward(cleared), LAMBDA backward :
                    IF Truthy(backward.ret)
                    THEN done([backward.self EXCEPT !.valid_movement = TRUE])
                    ELSE done(backward.self))
          [] OTHER -> Raise(cleared, "NotImplementedError"))))))

\* ------------------------------------------------------------ the state

VARIABLES
    agent,      \* the navigator object, a record of its attributes
    returned,   \* what the last completed take_action returned; <<>> before
    raised,     \* the exception that ended the run, or NoException
    calls,      \* completed take_action calls
    selftest,   \* the containment self-test: a box, a point, the answer
    sim         \* a run of simulate: its arguments and whether it has ended

vars == <<agent, returned, raised, calls, selftest, sim>>

\* no self-test running
NoSelfTest == <<>>
\* no navigator constructed
NoAgent == <<>>
\* simulate not running
NoSim == <<>>

\* ------------------------------------------------- environments and inputs

\* Two boxes in an L: the first runs up, the second runs right, and they
\* overlap around the first target.
EnvTwo ==
    << aligned_box(0, 2, 0, 4, <<1, 3>>, 0),
       aligned_box(0, 4, 2, 4, <<3, 3>>, 0) >>

\* Three boxes in a U; the third touches the first along the line x = 2, so
\* that three boxes enclose the points (2, 2) .. (2, 4).
EnvThree ==
    << aligned_box(0, 2, 0, 4, <<1, 3>>, 0),
       aligned_box(0, 4, 2, 4, <<3, 3>>, 0),
       aligned_box(2, 4, 0, 4, <<3, 1>>, 0) >>

\* EnvTwo built a quarter turn round the origin
EnvTurned ==
    << aligned_box(0, 2, 0, 4, <<1, 3>>, 1),
       aligned_box(0, 4, 2, 4, <<3, 3>>, 1) >>

\* A corridor twelve long and one wide with its target at the far end, and a
\* box across that end: long enough for a target to lie within six degrees
\* of a heading without lying straight ahead.
EnvCorridor ==
    << aligned_box(0, 12, 0, 1, <<11, 0>>, 0),
       aligned_box(10, 12, 0, 3, <<11, 2>>, 0) >>

Envs == {EnvTwo, EnvThree, EnvTurned, EnvCorridor}

\* Start positions: the points of the first box, and the points one step
\* to its left or right
StartPositions(env) ==
    {p \in {Pt(x, y) : x \in -5..13, y \in -5..5} :
        \E dx \in {-1, 0, 1} : point_is_inside(env[1], Pt(p.x + dx, p.y))}

StartRotations == 0..3

\* distance_threshold, movement_increment, rotation_increment
Settings == {<<1, 1, 1>>, <<2, 2, 1>>, <<2, 1, 3>>}

\* The navigators a run may construct: class and, for a wandering navigator,
\* chance_of_random_action in percent
Navigators ==
    {<<"BoxNavigatorBase", 0>>, <<"PerfectNavigator", 0>>,
     <<"WanderingNavigator", 0>>, <<"WanderingNavigator", 25>>,
     <<"ScriptedNavigator", 0>>}

\* What one take_action draws from outside the object: random() in percent,
\* the index choice() picks, the action a scripted navigator is told to take,
\* and the sign of a floating-point zero determinant.
Draw(random, choice, scripted, neg_zero) ==
    [random |-> random, choice |-> choice, scripted |-> scripted,
     neg_zero |-> neg_zero]

Draws(self) ==
    CASE self.class = "WanderingNavigator" ->
            {Draw(0, c, FORWARD, FALSE) : c \in 1..3}
              \cup {Draw(50, 1, FORWARD, z) : z \in BOOLEAN}
      [] self.class = "ScriptedNavigator" ->
            {Draw(0, 1, a, z) : a \in Action \cup {UnknownAction},
                                z \in BOOLEAN}
      [] OTHER -> {Draw(0, 1, FORWARD, z) : z \in BOOLEAN}

\* ---------------------------------------------------------------- actions

Construct(class, position, rotation, env, setting, chance) ==
    CASE class = "PerfectNavigator" ->
            PerfectNavigator(position, rotation, env,
                             setting[1], setting[2], setting[3])
      [] class = "WanderingNavigator" ->
            WanderingNavigator(position, rotation, env,
                               setting[1], setting[2], setting[3], chance)
      [] class = "ScriptedNavigator" ->
            ScriptedNavigator(position, rotation, env,
                              setting[1], setting[2], setting[3])
      [] OTHER ->
            BoxNavigatorBase(position, rotation, env,
                             setting[1], setting[2], setting[3])

Init ==
    /\ \E navigator \in Navigators, env \in Envs,
          rotation \in StartRotations, setting \in Settings :
          \E position \in StartPositions(env) :
              agent = Construct(navigator[1], position, rotation, env,
                                setting, navigator[2])
    /\ returned = <<>>
    /\ raised = NoException
    /\ calls = 0
    /\ selftest = NoSelfTest
    /\ sim = NoSim

\* One call of agent.take_action(), the run having made fewer than limit
TakeActionCall(limit) ==
    /\ raised = NoException
    /\ calls < limit
    /\ \E d \in Draws(agent) :
          \E out \in {take_action(agent, d.random, d.choice, d.scripted,
                                  d.neg_zero)} :
              /\ agent' = out.self
              /\ raised' = out.raised
              /\ returned' = IF out.raised = NoException
                             THEN out.ret ELSE returned
              /\ calls' = IF out.raised = NoException
                          THEN calls + 1 ELSE calls
    /\ UNCHANGED <<selftest, sim>>

TakeAction == TakeActionCall(MaxCalls)

Next == TakeAction

Spec == Init /\ [][Next]_vars

\* ------------------------------------------- the containment self-test

\* The box of the self-test of box.py, an aligned box, the same a quarter
\* turn round, and a square standing on a corner
SelfTestBoxes ==
    { Box(Pt(5, 0), Pt(0, 2), Pt(1, 5), Pt(0, 0), 0),
      aligned_box(0, 2, 0, 4, <<1, 3>>, 0),
      aligned_box(0, 2, 0, 4, <<1, 3>>, 1),
      Box(Pt(2, 0), Pt(0, 2), Pt(2, 4), Pt(2, 2), 0) }

\* The largest coordinate of a point the self-test asks about
MaxCoordinate == 6

SelfTestPoints ==
    {Pt(x, y) : x \in (0 - MaxCoordinate)..MaxCoordinate,
                y \in -1..MaxCoordinate}

InitSelfTest ==
    /\ agent = NoAgent
    /\ returned = <<>>
    /\ raised = NoException
    /\ calls = 0
    /\ \E box \in SelfTestBoxes, M \in SelfTestPoints :
          selftest = [box |-> box, M |-> M, asked |-> FALSE, inside |-> FALSE]
    /\ sim = NoSim

\* box.point_is_inside(M), as the self-test asks it
AskPointIsInside ==
    /\ ~selftest.asked
    /\ selftest' = [selftest EXCEPT
                      !.asked = TRUE,
                      !.inside = point_is_inside(selftest.box, selftest.M)]
    /\ UNCHANGED <<agent, returned, raised, calls, sim>>

NextSelfTest == AskPointIsInside

SpecSelfTest == InitSelfTest /\ [][NextSelfTest]_vars

\* ------------------------------------------- constructing boxes (box.py)

\* The largest coordinate of a corner given to a constructor
MaxCorner == 2

Corners == {Pt(x, y) : x \in 0..MaxCorner, y \in 0..MaxCorner}

\* The points a constructed box is asked about
AskedPoints == {Pt(x, y) : x \in -1..(MaxCorner + 1), y \in -1..(MaxCorner + 1)}

\* Three kinds of run: Box(A, B, C, target) and a containment test;
\* the same corners built with rotation 0 and with a rotation, asked about a
\* point and about the point rotated; aligned_box asked about its centre.
InitGeometry ==
    /\ agent = NoAgent
    /\ returned = <<>>
    /\ raised = NoException
    /\ calls = 0
    /\ sim = NoSim
    /\ \/ \E A \in Corners, B \in Corners, C \in Corners, M \in AskedPoints :
             selftest = [test |-> "Box", done |-> FALSE,
                         A |-> A, B |-> B, C |-> C, M |-> M]
       \/ \E A \in Corners, B \in Corners, C \in Corners, M \in AskedPoints,
             rotation \in 1..3 :
             selftest = [test |-> "rotation", done |-> FALSE,
                         A |-> A, B |-> B, C |-> C, M |-> M,
                         rotation |-> rotation]
       \/ \E left \in 0..MaxCorner, right \in 0..MaxCorner,
             lower \in 0..MaxCorner, upper \in 0..MaxCorner,
             rotation \in StartRotations :
             /\ (left + right) % 2 = 0
             /\ (lower + upper) % 2 = 0
             /\ selftest = [test |-> "aligned_box", done |-> FALSE,
                            left |-> left, right |-> right,
                            lower |-> lower, upper |-> upper,
                            rotation |-> rotation]

\* box = Box(A, B, C, target); box.point_is_inside(M).  Nothing in
\* Box.__init__ raises.
ConstructBox ==
    /\ selftest.test = "Box"
    /\ ~selftest.done
    /\ \E box \in {Box(selftest.A, selftest.B, selftest.C, selftest.B, 0)} :
          selftest' = [test |-> "Box", done |-> TRUE,
                       A |-> selftest.A, B |-> selftest.B, C |-> selftest.C,
                       M |-> selftest.M, box |-> box,
                       inside |-> point_is_inside(box, selftest.M)]
    /\ raised' = NoException
    /\ UNCHANGED <<agent, returned, calls, sim>>

\* Box(A, B, C, target).point_is_inside(M) and
\* Box(A, B, C, target, rotation).point_is_inside(rotate_point(M, rotation))
RotateBox ==
    /\ selftest.test = "rotation"
    /\ ~selftest.done
    /\ \E box \in {Box(selftest.A, selftest.B, selftest.C, selftest.B, 0)},
          turned \in {Box(selftest.A, selftest.B, selftest.C, selftest.B,
                          selftest.rotation)} :
          selftest' = [test |-> "rotation", done |-> TRUE,
                       A |-> selftest.A, B |-> selftest.B, C |-> selftest.C,
                       M |-> selftest.M, rotation |-> selftest.rotation,
                       box |-> box, turned |-> turned,
                       inside |-> point_is_inside(box, selftest.M),
                       inside_turned |->
                           point_is_inside(turned,
                               rotate_point(selftest.M, selftest.rotation))]
    /\ raised' = NoException
    /\ UNCHANGED <<agent, returned, calls, sim>>

\* box = aligned_box(left, right, lower, upper, target, rotation), asked
\* about the centre of the rectangle, rotated as the box is
AlignedBox ==
    /\ selftest.test = "aligned_box"
    /\ ~selftest.done
    /\ \E box \in {aligned_box(selftest.left, selftest.right, selftest.lower,
                               selftest.upper,
                               <<selftest.left, selftest.lower>>,
                               selftest.rotation)} :
          LET centre == Pt((selftest.left + selftest.right) \div 2,
                           (selftest.lower + selftest.upper) \div 2)
          IN  selftest' = [test |-> "aligned_box", done |-> TRUE,
                           left |-> selftest.left, right |-> selftest.right,
                           lower |-> selftest.lower, upper |-> selftest.upper,
                           rotation |-> selftest.rotation,
                           box |-> box, M |-> centre,
                           inside |->
                               point_is_inside(box,
                                   rotate_point(centre, selftest.rotation))]
    /\ raised' = NoException
    /\ UNCHANGED <<agent, returned, calls, sim>>

NextGeometry == ConstructBox \/ RotateBox \/ AlignedBox

SpecGeometry == InitGeometry /\ [][NextGeometry]_vars

\* ------------------------------------ the perfect navigator's run (scenario)

\* take_action calls the driver allows one run
ScenarioMaxActions == 12

\* A perfect navigator at the entry of a two-box environment: on the line
\* from the entry edge of the first box through its target, any heading.
\* Each entry is <<environment, position, <<distance_threshold,
\* movement_increment, rotation_increment>> >>.
ScenarioEntries ==
    { <<EnvTwo, Pt(1, 0), <<1, 1, 1>> >>,
      <<EnvTwo, Pt(1, 1), <<1, 1, 1>> >>,
      <<EnvTwo, Pt(1, 1), <<2, 2, 1>> >>,
      <<EnvTurned, Pt(0, 1), <<1, 1, 1>> >>,
      <<EnvTurned, Pt(-1, 1), <<1, 1, 1>> >>,
      <<EnvTurned, Pt(-1, 1), <<2, 2, 1>> >> }

InitScenario ==
    /\ \E entry \in ScenarioEntries, rotation \in StartRotations :
          agent = PerfectNavigator(entry[2], rotation, entry[1],
                                   entry[3][1], entry[3][2], entry[3][3])
    /\ returned = <<>>
    /\ raised = NoException
    /\ calls = 0
    /\ selftest = NoSelfTest
    /\ sim = NoSim

\* The driver's loop: take_action until the agent is at the final target or
\* the budget of actions is used up
RunToFinalTarget ==
    /\ ~at_final_target(agent)
    /\ num_actions_taken(agent) < ScenarioMaxActions
    /\ TakeActionCall(ScenarioMaxActions)

NextScenario == RunToFinalTarget

SpecScenario ==
    InitScenario /\ [][NextScenario]_vars /\ WF_vars(RunToFinalTarget)

\* --------------------------------------- a perfect navigator that overshoots

\* distance_threshold, movement_increment, rotation_increment with a step
\* longer than the boxes are wide
Overshooting == <<1, 4, 1>>

InitOvershoot ==
    /\ \E env \in Envs, rotation \in StartRotations,
          setting \in Settings \cup {Overshooting} :
          \E position \in StartPositions(env) :
              agent = PerfectNavigator(position, rotation, env,
                                       setting[1], setting[2], setting[3])
    /\ returned = <<>>
    /\ raised = NoException
    /\ calls = 0
    /\ selftest = NoSelfTest
    /\ sim = NoSim

PerfectTakeAction == TakeActionCall(MaxCalls)

NextOvershoot == PerfectTakeAction

SpecOvershoot == InitOvershoot /\ [][NextOvershoot]_vars

\* ------------------------- a wandering and a perfect navigator side by side

\* A WanderingNavigator with chance_of_random_action = 0 in agent and a
\* PerfectNavigator built from the same arguments in sim.twin
InitTwins ==
    /\ \E env \in Envs, rotation \in StartRotations, setting \in Settings :
          \E position \in StartPositions(env) :
              /\ agent = WanderingNavigator(position, rotation, env, setting[1],
                                            setting[2], setting[3], 0)
              /\ sim = [pc |-> "twins",
                        twin |-> PerfectNavigator(position, rotation, env,
                                                  setting[1], setting[2],
                                                  setting[3]),
                        returned |-> <<>>,
                        raised |-> NoException]
    /\ returned = <<>>
    /\ raised = NoException
    /\ calls = 0
    /\ selftest = NoSelfTest

\* Both navigators take one action.  random() and choice() are drawn for the
\* wandering navigator alone; the sign of a floating-point zero is the result
\* of the same arithmetic on the same numbers in both, so it is drawn once.
TwinsTakeAction ==
    /\ sim.pc = "twins"
    /\ raised = NoException
    /\ sim.raised = NoException
    /\ calls < MaxCalls
    /\ \E d \in Draws(agent) :
          \E out \in {take_action(agent, d.random, d.choice, d.scripted,
                                  d.neg_zero)},
             twin \in {take_action(sim.twin, d.random, d.choice, d.scripted,
                                   d.neg_zero)} :
              /\ agent' = out.self
              /\ raised' = out.raised
              /\ returned' = IF out.raised = NoException
                             THEN out.ret ELSE returned
              /\ calls' = IF out.raised = NoException
                          THEN calls + 1 ELSE calls
              /\ sim' = [sim EXCEPT
                            !.twin = twin.self,
                            !.raised = twin.raised,
                            !.returned = IF twin.raised = NoException
                                         THEN twin.ret ELSE sim.returned]
    /\ UNCHANGED selftest

NextTwins == TwinsTakeAction

SpecTwins == InitTwins /\ [][NextTwins]_vars

\* ------------------------------------------------- boxsim.py: simulate

\* The largest --max_actions a run of simulate is given
MaxActions == 3

\* The positional arguments simulate passes to the navigator's constructor
\* (position, rotation, environment), and the ones __init__ of a navigator
\* has no default for
SuppliedArguments == 3
RequiredArguments == 6

\* simulate choosing the constructor by args.navigator; "base" stands for any
\* name that is neither "wandering" nor "perfect"
NavigatorConstructor(navigator) ==
    CASE navigator = "wandering" -> Return("WanderingNavigator", "None")
      [] navigator = "perfect" -> Return("PerfectNavigator", "None")
      [] OTHER -> Raise("None", "ValueError")

\* Unpacking a returned tuple into two names: _, _ = value
UnpackTwo(value) ==
    IF Len(value) = 2 THEN NoException ELSE "ValueError"

\* simulate's loop condition
SimulateContinues ==
    /\ ~at_final_target(agent)
    /\ num_actions_taken(agent) < sim.max_actions

\* A run of simulate as main calls it, before the navigator is constructed;
\* or the loop of simulate entered with a navigator that was constructed
\* with all its arguments.
InitSimulate ==
    /\ returned = <<>>
    /\ raised = NoException
    /\ calls = 0
    /\ selftest = NoSelfTest
    /\ \E max_actions \in 0..MaxActions :
          \/ /\ agent = NoAgent
             /\ \E navigator \in {"wandering", "perfect", "base"} :
                   sim = [navigator |-> navigator, max_actions |-> max_actions,
                          pc |-> "construct"]
          \/ \E navigator \in {<<"wandering", 25>>, <<"perfect", 0>>},
                rotation \in StartRotations, setting \in Settings :
                \E position \in StartPositions(EnvTwo) :
                   /\ agent = Construct(NavigatorConstructor(navigator[1]).self,
                                        position, rotation, EnvTwo, setting,
                                        navigator[2])
                   /\ sim = [navigator |-> navigator[1],
                             max_actions |-> max_actions, pc |-> "loop"]

\* simulate, to the construction of the navigator: an unknown navigator is a
\* ValueError, and the constructor, called with fewer arguments than it
\* requires, a TypeError
SimulateConstruct ==
    /\ sim.pc = "construct"
    /\ raised' = IF NavigatorConstructor(sim.navigator).raised # NoException
                 THEN NavigatorConstructor(sim.navigator).raised
                 ELSE IF SuppliedArguments < RequiredArguments
                      THEN "TypeError" ELSE NoException
    /\ sim' = [sim EXCEPT !.pc = "failed"]
    /\ UNCHANGED <<agent, returned, calls, selftest>>

\* One turn of the loop: _, _ = agent.take_action().  No exception but a
\* TimeoutError is caught, so any other ends simulate.
SimulateTakeAction ==
    /\ sim.pc = "loop"
    /\ SimulateContinues
    /\ \E d \in Draws(agent) :
          \E out \in {take_action(agent, d.random, d.choice, d.scripted,
                                  d.neg_zero)} :
              /\ agent' = out.self
              /\ returned' = IF out.raised = NoException
                             THEN out.ret ELSE returned
              /\ calls' = IF out.raised = NoException
                          THEN calls + 1 ELSE calls
              /\ raised' = IF out.raised = NoException
                           THEN UnpackTwo(out.ret) ELSE out.raised
              /\ sim' = [sim EXCEPT !.pc =
                            IF out.raised = NoException
                               /\ UnpackTwo(out.ret) = NoException
                            THEN "loop" ELSE "failed"]
    /\ UNCHANGED selftest

\* The loop is left and simulate reports: "Simulation complete."
SimulateComplete ==
    /\ sim.pc = "loop"
    /\ ~SimulateContinues
    /\ sim' = [sim EXCEPT !.pc = "complete"]
    /\ UNCHANGED <<agent, returned, raised, calls, selftest>>

NextSimulate == SimulateConstruct \/ SimulateTakeAction \/ SimulateComplete

SpecSimulate ==
    InitSimulate /\ [][NextSimulate]_vars /\ WF_vars(NextSimulate)

\* --------------------------------------- boxunreal.py: UENavigatorWrapper

\* UENavigatorWrapper.take_action from the navigator's take_action on: out
\* is what self.navigator.take_action() gave.  Its value is unpacked into
\* action_taken and correct_action; the calls to the engine that follow
\* change nothing of the navigator, and the pair is returned.
UENavigatorWrapper_take_action(out) ==
    IF out.raised # NoException
    THEN Raise(out.self, out.raised)
    ELSE IF UnpackTwo(out.ret) # NoException
         THEN Raise(out.self, UnpackTwo(out.ret))
         ELSE IF out.ret[1] \in Action
              THEN Return(out.self, <<out.ret[1], out.ret[2]>>)
              ELSE Raise(out.self, "RuntimeError")

\* A perfect or wandering navigator, constructed with all its arguments and
\* wrapped
InitWrapper ==
    /\ returned = <<>>
    /\ raised = NoException
    /\ calls = 0
    /\ selftest = NoSelfTest
    /\ \E navigator \in {<<"PerfectNavigator", 0>>, <<"WanderingNavigator", 25>>},
          env \in {EnvTwo, EnvThree}, rotation \in StartRotations,
          setting \in Settings :
          \E position \in StartPositions(env) :
              agent = Construct(navigator[1], position, rotation, env,
                                setting, navigator[2])
    /\ sim = [pc |-> "wrapper", step |-> <<>>]

\* agent.take_action() of a wrapped navigator.  timeout: the engine does not
\* answer self.ue5.set_raycast, the first statement, in time.
WrapperTakeAction ==
    /\ sim.pc = "wrapper"
    /\ raised = NoException
    /\ calls < MaxCalls
    /\ \E timeout \in BOOLEAN, d \in Draws(agent) :
          IF timeout
          THEN /\ raised' = "TimeoutError"
               /\ UNCHANGED <<agent, returned, calls, sim>>
          ELSE \E out \in {take_action(agent, d.random, d.choice, d.scripted,
                                       d.neg_zero)} :
               \E wrapped \in {UENavigatorWrapper_take_action(out)} :
                  /\ agent' = wrapped.self
                  /\ raised' = wrapped.raised
                  /\ returned' = IF wrapped.raised = NoException
                                 THEN wrapped.ret ELSE returned
                  /\ calls' = IF wrapped.raised = NoException
                              THEN calls + 1 ELSE calls
                  /\ sim' = [sim EXCEPT !.step = out.ret]
    /\ UNCHANGED selftest

NextWrapper == WrapperTakeAction

SpecWrapper == InitWrapper /\ [][NextWrapper]_vars

\* ------------------------------------- configuring a navigator (__init__)

\* What a caller wants of a navigator: the three constants the constructors
\* take and the half target wedge, in degrees
Configurations ==
    {[distance_threshold |-> setting[1], movement_increment |-> setting[2],
      rotation_increment |-> setting[3], half_target_wedge |-> wedge] :
        setting \in Settings, wedge \in {3, HalfTargetWedgeDegrees, 12}}

InitConfigure ==
    /\ agent = NoAgent
    /\ returned = <<>>
    /\ raised = NoException
    /\ calls = 0
    /\ selftest = NoSelfTest
    /\ \E navigator \in Navigators, configuration \in Configurations,
          rotation \in StartRotations :
          \E position \in StartPositions(EnvTwo) :
              sim = [pc |-> "configure", navigator |-> navigator,
                     position |-> position, rotation |-> rotation,
                     configuration |-> configuration]

\* The caller constructs the navigator, passing what the constructor has
\* parameters for: distance_threshold, movement_increment (forward_increment)
\* and rotation_increment
ConstructNavigator ==
    /\ sim.pc = "configure"
    /\ agent' = Construct(sim.navigator[1], sim.position, sim.rotation, EnvTwo,
                          <<sim.configuration.distance_threshold,
                            sim.configuration.movement_increment,
                            sim.configuration.rotation_increment>>,
                          sim.navigator[2])
    /\ sim' = [sim EXCEPT !.pc = "constructed"]
    /\ UNCHANGED <<returned, raised, calls, selftest>>

NextConfigure == ConstructNavigator

SpecConfigure == InitConfigure /\ [][NextConfigure]_vars

\* ===================================================================
\* The claims
\* ===================================================================

\* What the last completed take_action returned
ActionTaken == returned[1]
CorrectActionReturned == returned[2]
Moved == returned[3]

\* A step that completes a take_action call
CompletesCall == calls' = calls + 1

\* The point one movement_increment along (sign 1) or against (sign -1) the
\* heading the agent has before the step
CandidatePoint(sign) ==
    Pt(agent.position.x + sign * agent.movement_increment * cos(agent.rotation),
       agent.position.y + sign * agent.movement_increment * sin(agent.rotation))

\* C1: a FORWARD or BACKWARD step whose candidate point (position plus or
\* minus movement_increment along the heading) is not inside current_box
\* leaves position unchanged and reports moved = false.
C1_RejectedMoveKeepsPosition ==
    [][ /\ CompletesCall
        /\ \/ /\ returned'[1] = FORWARD
              /\ ~point_is_inside(agent'.current_box, CandidatePoint(1))
           \/ /\ returned'[1] = BACKWARD
              /\ ~point_is_inside(agent'.current_box, CandidatePoint(-1))
        => /\ agent'.position = agent.position
           /\ returned'[3] = FALSE ]_vars

\* C1 witness: a FORWARD step was rejected at the edge of the current box.
C1_Witness ==
    /\ calls > 0
    /\ ActionTaken = FORWARD
    /\ Moved = FALSE
    /\ ~point_is_inside(agent.current_box, CandidatePoint(1))

\* C2: the agent is never taken out of bounds: once position is inside
\* current_box it is inside current_box after every take_action, hand-offs
\* included; so a navigator that starts inside the first box stays inside
\* its current box.
C2_StaysInsideCurrentBox ==
    [][ point_is_inside(agent.current_box, agent.position)
        => point_is_inside(agent'.current_box, agent'.position) ]_vars

\* C2 witness: after a hand-off to a later box and a committed move, the
\* position is inside the new current box.
C2_Witness ==
    /\ calls >= 2
    /\ agent.current_box # agent.env[1]
    /\ Moved = TRUE
    /\ point_is_inside(agent.current_box, agent.position)
    /\ ~point_is_inside(agent.env[1], agent.position)

\* The boxes of the environment that enclose p, by their place in the order
Enclosing(p) ==
    {i \in 1..Len(agent.env) : point_is_inside(agent.env[i], p)}

LastOf(S) == CHOOSE i \in S : \A j \in S : j <= i

\* position is nearer than distance_threshold to the current target
NearTarget ==
    (agent.position.x - agent.target.x) * (agent.position.x - agent.target.x)
      + (agent.position.y - agent.target.y) * (agent.position.y - agent.target.y)
    < agent.distance_threshold * agent.distance_threshold

HandOffDue == NearTarget /\ Cardinality(Enclosing(agent.position)) > 1

\* C3: update_target hands off if and only if position is nearer than
\* distance_threshold to the current target and more than one box encloses
\* position; then target and current_box become the target of, and, the last
\* enclosing box in environment order; otherwise both are unchanged.
C3_HandOffExactlyWhenDue ==
    [][ IF HandOffDue
        THEN /\ agent'.current_box = agent.env[LastOf(Enclosing(agent.position))]
             /\ agent'.target = agent.env[LastOf(Enclosing(agent.position))].target
        ELSE /\ agent'.current_box = agent.current_box
             /\ agent'.target = agent.target ]_vars

\* C3 witness: a hand-off has skipped to the third of three enclosing boxes.
C3_Witness ==
    /\ calls = 1
    /\ Len(agent.env) = 3
    /\ agent.current_box = agent.env[3]
    /\ agent.target = agent.env[3].target
    /\ Cardinality(Enclosing(agent.position)) = 3

\* The place of a box in the environment's order
IndexOf(box) == CHOOSE i \in 1..Len(agent.env) : agent.env[i] = box

\* C4: progression through the box chain is forward-only: the index of
\* current_box in the environment's order never decreases.
C4_ForwardOnly ==
    [][ IndexOf(agent'.current_box) >= IndexOf(agent.current_box) ]_vars

\* C4 witness: the agent, handed on to the second box, has turned on the
\* spot in the overlap with the first box near the second target, so that
\* the call's hand-off chose among the first and the second box, and is
\* still in the second.
C4_Witness ==
    /\ calls >= 2
    /\ IndexOf(agent.current_box) = 2
    /\ ActionTaken \in {ROTATE_LEFT, ROTATE_RIGHT}
    /\ HandOffDue
    /\ 1 \in Enclosing(agent.position)

\* Distance along the axes from a to b
AxisDistance(a, b) ==
    (IF a.x < b.x THEN b.x - a.x ELSE a.x - b.x)
      + (IF a.y < b.y THEN b.y - a.y ELSE a.y - b.y)

\* The take_action calls a scenario entry allows: the way from the entry to
\* the first target and on to the final target in steps of
\* movement_increment, two quarter turns to face the first target and one
\* to face the second
ScenarioSteps(entry) ==
    (AxisDistance(entry[2], entry[1][1].target)
       + AxisDistance(entry[1][1].target, entry[1][2].target)) \div entry[3][2]
    + 3

\* the longest run of the entries with the agent's environment and settings
ScenarioBound ==
    LET mine == {e \in ScenarioEntries :
                    /\ e[1] = agent.env
                    /\ e[3][1] = agent.distance_threshold
                    /\ e[3][2] = agent.movement_increment}
    IN  CHOOSE n \in {ScenarioSteps(e) : e \in mine} :
            \A e \in mine : ScenarioSteps(e) <= n

CornerD(box) == Pt(box.A.x + box.C.x - box.B.x, box.A.y + box.C.y - box.B.y)

\* M lies on the segment from P to Q
OnSegment(P, Q, M) ==
    /\ (Q.x - P.x) * (M.y - P.y) - (Q.y - P.y) * (M.x - P.x) = 0
    /\ 0 <= (Q.x - P.x) * (M.x - P.x) + (Q.y - P.y) * (M.y - P.y)
    /\ (Q.x - P.x) * (M.x - P.x) + (Q.y - P.y) * (M.y - P.y)
         <= (Q.x - P.x) * (Q.x - P.x) + (Q.y - P.y) * (Q.y - P.y)

\* The box has a right angle at B
Rectangular(box) ==
    (box.B.x - box.A.x) * (box.C.x - box.B.x)
      + (box.B.y - box.A.y) * (box.C.y - box.B.y) = 0

\* AB.AM and BC.BM, and the squared lengths, from the corners
ProjAB(box, M) ==
    (box.B.x - box.A.x) * (M.x - box.A.x) + (box.B.y - box.A.y) * (M.y - box.A.y)
ProjBC(box, M) ==
    (box.C.x - box.B.x) * (M.x - box.B.x) + (box.C.y - box.B.y) * (M.y - box.B.y)
SquareAB(box) ==
    (box.B.x - box.A.x) * (box.B.x - box.A.x)
      + (box.B.y - box.A.y) * (box.B.y - box.A.y)
SquareBC(box) ==
    (box.C.x - box.B.x) * (box.C.x - box.B.x)
      + (box.C.y - box.B.y) * (box.C.y - box.B.y)

TargetAhead ==
    LET tx == agent'.target.x - agent.position.x
        ty == agent'.target.y - agent.position.y
    IN  CASE agent.rotation % 4 = 0 -> tx
          [] agent.rotation % 4 = 1 -> ty
          [] agent.rotation % 4 = 2 -> 0 - tx
          [] agent.rotation % 4 = 3 -> 0 - ty

TargetLeft ==
    LET tx == agent'.target.x - agent.position.x
        ty == agent'.target.y - agent.position.y
    IN  CASE agent.rotation % 4 = 0 -> ty
          [] agent.rotation % 4 = 1 -> 0 - tx
          [] agent.rotation % 4 = 2 -> 0 - ty
          [] agent.rotation % 4 = 3 -> tx

\* The signed angle to the target is within six degrees of the heading, or
\* the agent stands on the target (the angle of the zero vector is 0).
\* tan(6 degrees) = 0.1051042...: one part to the side in ten ahead is
\* within the wedge, one in nine is not.
WithinWedge ==
    \/ TargetAhead = 0 /\ TargetLeft = 0
    \/ /\ TargetAhead > 0
       /\ TargetLeft * 10000000 < 1051042 * TargetAhead
       /\ TargetLeft * 10000000 > (0 - 1051042) * TargetAhead

\* C7: correct_action is FORWARD when the absolute signed angle from the
\* heading to the direction of the target is smaller than half_target_wedge
\* (so when the navigator faces the target exactly), ROTATE_LEFT when the
\* angle is positive and outside the wedge, ROTATE_RIGHT otherwise; an angle
\* of pi or -pi (target straight behind) counts by its sign.
C7_CorrectAction ==
    [][ CompletesCall =>
        /\ TargetLeft = 0 /\ TargetAhead > 0 => returned'[2] = FORWARD
        /\ WithinWedge => returned'[2] = FORWARD
        /\ ~WithinWedge /\ TargetLeft > 0 => returned'[2] = ROTATE_LEFT
        /\ ~WithinWedge /\ TargetLeft < 0 => returned'[2] = ROTATE_RIGHT
        /\ ~WithinWedge /\ TargetLeft = 0
             => returned'[2] = IF agent'.signed_angle_to_target.minus_pi
                               THEN ROTATE_RIGHT ELSE ROTATE_LEFT ]_vars

\* C7 witness: a navigator whose target lay ahead and a little to the right,
\* within the wedge, was told FORWARD.
C7_Witness ==
    /\ calls > 0
    /\ CorrectActionReturned = FORWARD
    /\ agent.signed_angle_to_target.det < 0
    /\ agent.signed_angle_to_target.dot > 0

\* C8: for a perfect navigator, the action taken in every take_action is the
\* correct action the same call returns.
C8_PerfectTakesCorrectAction ==
    (calls > 0 /\ agent.class = "PerfectNavigator")
        => ActionTaken = CorrectActionReturned

\* C8 witness: a perfect navigator has turned, its correct action being
\* that turn.
C8_Witness ==
    /\ calls >= 2
    /\ agent.class = "PerfectNavigator"
    /\ ActionTaken = ROTATE_RIGHT
    /\ CorrectActionReturned = ROTATE_RIGHT

\* C9: BACKWARD is never taken by either reference strategy: correct_action
\* never returns BACKWARD, the wandering strategy chooses among FORWARD,
\* ROTATE_LEFT and ROTATE_RIGHT only, and so the action taken by a perfect
\* or wandering navigator is never BACKWARD.
C9_NoBackward ==
    calls > 0 =>
        /\ CorrectActionReturned # BACKWARD
        /\ agent.class \in {"PerfectNavigator", "WanderingNavigator"}
             => ActionTaken # BACKWARD

\* C9 witness: a wandering navigator has taken a random action that is not
\* the correct one.
C9_Witness ==
    /\ calls >= 2
    /\ agent.class = "WanderingNavigator"
    /\ ActionTaken # CorrectActionReturned

\* C10: every completed take_action adds exactly one to actions_taken,
\* whether it rotated, moved or had its move rejected: num_actions_taken()
\* is the number of completed take_action calls.
C10_CountsEveryCall ==
    num_actions_taken(agent) = calls

\* C10 witness: three calls are counted, the last a rejected move.
C10_Witness ==
    /\ calls = 3
    /\ num_actions_taken(agent) = 3
    /\ ActionTaken \in {FORWARD, BACKWARD}
    /\ Moved = FALSE

\* simulate has stopped calling take_action
SimulateEnded == sim.pc \in {"complete", "failed"}

\* C11: the driver loop calls take_action only while the agent is not at the
\* final target and num_actions_taken() < max_actions; it terminates, that
\* is it stops calling take_action because the agent has reached the final
\* target or the budget is used up; and the number of actions taken never
\* exceeds max_actions.
C11_DriverRunsToTargetOrBudget ==
    [][ /\ calls' > calls => /\ ~at_final_target(agent)
                             /\ num_actions_taken(agent) < sim.max_actions
        /\ agent' # NoAgent => num_actions_taken(agent') <= sim.max_actions
        /\ sim'.pc \in {"complete", "failed"}
             => /\ agent' # NoAgent
                /\ raised' = NoException
                /\ \/ at_final_target(agent')
                   \/ num_actions_taken(agent') >= sim.max_actions ]_vars

AsAfterHandOff ==
    IF HandOffDue
    THEN /\ agent'.current_box = agent.env[LastOf(Enclosing(agent.position))]
         /\ agent'.target = agent.env[LastOf(Enclosing(agent.position))].target
    ELSE /\ agent'.current_box = agent.current_box
         /\ agent'.target = agent.target

\* C13: ROTATE_LEFT increases rotation by exactly rotation_increment and
\* ROTATE_RIGHT decreases it by exactly rotation_increment, rotation not
\* being wrapped into a bounded range; a rotation leaves position, target and
\* current_box as they were after the step's hand-off.
C13_RotationByIncrement ==
    [][ CompletesCall =>
        /\ returned'[1] = ROTATE_LEFT
             => /\ agent'.rotation = agent.rotation + agent.rotation_increment
                /\ agent'.position = agent.position
                /\ AsAfterHandOff
        /\ returned'[1] = ROTATE_RIGHT
             => /\ agent'.rotation = agent.rotation - agent.rotation_increment
                /\ agent'.position = agent.position
                /\ AsAfterHandOff ]_vars

\* C13 witness: turning left has taken rotation past a full turn, in a step
\* whose hand-off changed the target.
C13_Witness ==
    /\ calls >= 2
    /\ ActionTaken = ROTATE_LEFT
    /\ agent.rotation >= 4
    /\ agent.current_box = agent.env[2]

\* rotation has gone below zero by turning right
C13_WitnessRight ==
    /\ calls >= 2
    /\ ActionTaken = ROTATE_RIGHT
    /\ agent.rotation < 0

\* The square of the distance from position to the target of the last box
SquaredDistanceToLastTarget(nav) ==
    LET last == nav.env[Len(nav.env)].target
    IN  (nav.position.x - last.x) * (nav.position.x - last.x)
          + (nav.position.y - last.y) * (nav.position.y - last.y)

\* C14: at_final_target() is true if and only if the distance from position
\* to final_target is strictly less than distance_threshold; final_target is
\* the target of the last box of the environment and never changes in a run.
C14_AtFinalTarget ==
    [][ /\ agent.final_target = agent.env[Len(agent.env)].target
        /\ agent'.final_target = agent.final_target
        /\ agent'.env = agent.env
        /\ at_final_target(agent')
             <=> SquaredDistanceToLastTarget(agent')
                   < agent'.distance_threshold * agent'.distance_threshold
        /\ at_final_target(agent)
             <=> SquaredDistanceToLastTarget(agent)
                   < agent.distance_threshold * agent.distance_threshold ]_vars

\* C14 witness: a move has brought the agent nearer than distance_threshold
\* to the final target without its standing on it.
C14_Witness ==
    /\ calls > 0
    /\ Moved = TRUE
    /\ at_final_target(agent)
    /\ agent.position # agent.final_target

\* a move has brought the agent to exactly distance_threshold from the final
\* target, which is not at the final target
C14_WitnessBoundary ==
    /\ calls > 0
    /\ Moved = TRUE
    /\ SquaredDistanceToLastTarget(agent)
         = agent.distance_threshold * agent.distance_threshold
    /\ ~at_final_target(agent)

\* C15: constructing a Box with a zero-length edge (dotAB = 0 or dotBC = 0)
\* is rejected at construction: the constructor fails instead of returning a
\* Box that can later be used for containment tests.
C15_DegenerateBoxRejected ==
    (/\ selftest.test = "Box"
     /\ selftest.done
     /\ selftest.A = selftest.B \/ selftest.B = selftest.C)
        => raised # NoException

\* C16: an action value outside FORWARD, BACKWARD, ROTATE_LEFT and
\* ROTATE_RIGHT makes take_action fail with an error: no call completes with
\* such an action, and the call that fails applies no movement and no
\* rotation and does not count in actions_taken.
C16_UnknownActionFailsLoudly ==
    [][ /\ CompletesCall => returned'[1] \in Action
        /\ (agent.class = "ScriptedNavigator" /\ raised' # NoException)
             => /\ raised' = "NotImplementedError"
                /\ agent'.position = agent.position
                /\ agent'.rotation = agent.rotation
                /\ agent'.actions_taken = agent.actions_taken
                /\ calls' = calls
                /\ returned' = returned ]_vars

\* C16 witness: a navigator whose strategy returned an unknown action, after
\* two counted actions, has failed with two actions still counted.
C16_Witness ==
    /\ agent.class = "ScriptedNavigator"
    /\ raised = "NotImplementedError"
    /\ calls = 2
    /\ num_actions_taken(agent) = 2

\* C17: an unknown or unregistered navigation strategy is a fatal
\* configuration error raised at construction: no navigator without a
\* registered strategy is constructed and has take_action called on it, and
\* no navigator state is changed before the error is raised.
C17_UnknownStrategyFailsAtConstruction ==
    [][ /\ agent.class \in {"PerfectNavigator", "WanderingNavigator",
                            "ScriptedNavigator"}
        /\ (raised' # NoException /\ agent.class = "BoxNavigatorBase")
             => agent' = agent ]_vars

\* C18: all four configuration constants of a navigator (distance_threshold,
\* movement_increment, rotation_increment, half_target_wedge) are set from
\* the values the caller supplies at construction; none is fixed to a
\* hardcoded value.
C18_ConstantsFromCaller ==
    sim.pc = "constructed" =>
        /\ agent.distance_threshold = sim.configuration.distance_threshold
        /\ agent.movement_increment = sim.configuration.movement_increment
        /\ agent.rotation_increment = sim.configuration.rotation_increment
        /\ agent.half_target_wedge = sim.configuration.half_target_wedge

\* C19: containment is rotation-equivariant: for every point M inside a box
\* built with rotation 0, the box built from the same corners with a
\* rotation contains rotate_point(M, rotation); the rotations are the quarter
\* turns, and the corners of the turned box are the corners turned.
C19_RotationEquivariant ==
    (selftest.test = "rotation" /\ selftest.done) =>
        /\ selftest.inside => selftest.inside_turned
        /\ selftest.turned.A = rotate_point(selftest.A, selftest.rotation)
        /\ selftest.turned.B = rotate_point(selftest.B, selftest.rotation)
        /\ selftest.turned.C = rotate_point(selftest.C, selftest.rotation)
        /\ selftest.turned.dotAB = selftest.box.dotAB
        /\ selftest.turned.dotBC = selftest.box.dotBC

\* C19 witness: a point inside a box with a right angle at B, away from the
\* origin, is inside the box turned once it is turned itself, and has left
\* its place.
C19_Witness ==
    /\ selftest.test = "rotation"
    /\ selftest.done
    /\ selftest.inside
    /\ selftest.inside_turned
    /\ Rectangular(selftest.box)
    /\ selftest.box.dotAB > 0
    /\ selftest.box.dotBC > 0
    /\ rotate_point(selftest.M, selftest.rotation) # selftest.M
    /\ ~point_is_inside(selftest.turned, selftest.M)

\* C20: aligned_box(left, right, lower, upper, target) builds the corners
\* A = (left, lower), B = (left, upper), C = (right, upper) and hands them
\* to the general constructor, so that with rotation 0 the box contains its
\* own centre ((left + right) / 2, (lower + upper) / 2); with a rotation the
\* constructor turns the corners, and the box contains the centre turned.
C20_AlignedBoxContainsCentre ==
    (selftest.test = "aligned_box" /\ selftest.done) =>
        LET A == Pt(selftest.left, selftest.lower)
            B == Pt(selftest.left, selftest.upper)
            C == Pt(selftest.right, selftest.upper)
            box == selftest.box
        IN  /\ box.A = rotate_point(A, selftest.rotation)
            /\ box.B = rotate_point(B, selftest.rotation)
            /\ box.C = rotate_point(C, selftest.rotation)
            /\ box.dotAB = (selftest.upper - selftest.lower)
                             * (selftest.upper - selftest.lower)
            /\ box.dotBC = (selftest.right - selftest.left)
                             * (selftest.right - selftest.left)
            /\ selftest.M.x * 2 = selftest.left + selftest.right
            /\ selftest.M.y * 2 = selftest.lower + selftest.upper
            /\ selftest.inside

\* C20 witness: an aligned box two wide and two high, built without
\* rotation, contains its centre, which is none of its corners.
C20_Witness ==
    /\ selftest.test = "aligned_box"
    /\ selftest.done
    /\ selftest.rotation = 0
    /\ selftest.right = selftest.left + 2
    /\ selftest.upper = selftest.lower + 2
    /\ selftest.box.A = Pt(selftest.left, selftest.lower)
    /\ selftest.M = Pt(selftest.left + 1, selftest.lower + 1)
    /\ selftest.inside

\* The navigator as it is when the step's correct action is worked out: the
\* position and rotation it had before the step, the target the step's
\* hand-off gave it
AtDecision == [agent EXCEPT !.target = agent'.target,
                            !.current_box = agent'.current_box]

\* C21: within one take_action the order is hand-off (update_target), the
\* strategy's choice, correct_action, the action applied; so the correct
\* action returned is the one for the target after the step's hand-off and
\* for the position and rotation before the step's action is applied, and a
\* perfect navigator's choice is made for the same.
C21_OrderWithinStep ==
    [][ CompletesCall =>
        /\ AsAfterHandOff
        /\ \E neg_zero \in BOOLEAN :
              /\ returned'[2] = correct_action(AtDecision, neg_zero).ret
              /\ agent'.signed_angle_to_target
                   = correct_action(AtDecision, neg_zero).self.signed_angle_to_target
              /\ agent.class = "PerfectNavigator"
                   => returned'[1] = correct_action(AtDecision, neg_zero).ret ]_vars

\* C21 witness: in its first step a navigator was handed on to the second
\* box and turned left, which was the correct action for the new target and
\* the old heading; for the old target, and for the new heading, it is not.
C21_Witness ==
    /\ calls = 1
    /\ agent.target = agent.env[2].target
    /\ agent.target # agent.env[1].target
    /\ returned[1] = ROTATE_LEFT
    /\ returned[2] = ROTATE_LEFT
    /\ correct_action(agent, FALSE).ret = FORWARD
    /\ correct_action([agent EXCEPT
                          !.target = agent.env[1].target,
                          !.rotation = agent.rotation - agent.rotation_increment],
                      FALSE).ret = FORWARD

\* The attributes of the navigator a step leaves as they were, those in
\* changing excepted
Keeps(changing) ==
    /\ DOMAIN agent' = DOMAIN agent
    /\ \A attribute \in DOMAIN agent \ changing :
          agent'[attribute] = agent[attribute]

\* Two signed angles, each kept as the (det, dot) it is the atan2 of, are the
\* same angle: the same direction, and the same sign of pi
SameAngle(a, b) ==
    /\ a.det * b.dot = b.det * a.dot
    /\ a.det * b.det >= 0
    /\ a.dot * b.dot >= 0
    /\ (a.det = 0 /\ a.dot = 0) <=> (b.det = 0 /\ b.dot = 0)
    /\ a.minus_pi = b.minus_pi

\* C22 as stated: take_action changes only the navigator's own position,
\* rotation, target, current_box and actions_taken (taken from the second
\* call on, when every attribute of the navigator has been written once).
C22_ChangesOnlyFive ==
    [][ calls > 0 =>
          /\ Keeps({"position", "rotation", "target", "current_box",
                    "actions_taken", "signed_angle_to_target"})
          /\ SameAngle(agent'.signed_angle_to_target,
                       agent.signed_angle_to_target) ]_vars

\* C22: take_action changes only the navigator's own position, rotation,
\* target, current_box and actions_taken, and the two attributes it keeps
\* of the step, valid_movement and signed_angle_to_target: the
\* environment's box sequence, every box's corners and target, final_target
\* and the configuration are the same after any sequence of take_action
\* calls as after construction.
C22_FrameOfTakeAction ==
    [][ /\ Keeps({"position", "rotation", "target", "current_box",
                  "actions_taken", "valid_movement",
                  "signed_angle_to_target"})
        /\ agent'.env = agent.env
        /\ agent'.env \in Envs
        /\ agent'.final_target = agent.env[Len(agent.env)].target
        /\ agent'.current_box \in {agent.env[i] : i \in 1..Len(agent.env)} ]_vars

\* C22 witness: after a hand-off, a turn and a move the navigator is in the
\* second box with another position, heading and target than the first
\* box's, and the environment and final target are those it was built with.
C22_Witness ==
    /\ calls >= 3
    /\ agent.env = EnvThree
    /\ agent.current_box = EnvThree[3]
    /\ agent.target = EnvThree[3].target
    /\ agent.final_target = EnvThree[3].target
    /\ Moved = TRUE
    /\ agent.rotation \notin StartRotations

\* C23: UENavigatorWrapper.take_action runs one step of the wrapped
\* navigator and returns that step's action taken and correct action to the
\* driver (unless the engine times out).
C23_WrapperReturnsStep ==
    [][ (sim.pc = "wrapper" /\ raised' # "TimeoutError")
          => /\ raised' = NoException
             /\ num_actions_taken(agent') = num_actions_taken(agent) + 1
             /\ returned' = <<sim'.step[1], sim'.step[2]>> ]_vars

\* C24: in every reachable state of a navigator, target equals
\* current_box.target: after construction both are the first box's, and
\* every take_action, hand-offs included, keeps them together.
C24_TargetOfCurrentBox ==
    agent.target = agent.current_box.target

\* C24 witness: a navigator handed on to a later box, and moved since, has
\* that box's target, which is not the first box's.
C24_Witness ==
    /\ calls >= 2
    /\ Moved = TRUE
    /\ agent.current_box # agent.env[1]
    /\ agent.target = agent.current_box.target
    /\ agent.target # agent.env[1].target

\* The step is a perfect navigator's FORWARD that was rejected
RejectedForward ==
    /\ CompletesCall
    /\ agent.class = "PerfectNavigator"
    /\ returned' = <<FORWARD, FORWARD, FALSE>>

\* The last completed step was a perfect navigator's rejected FORWARD
LastRejected ==
    /\ calls > 0
    /\ agent.class = "PerfectNavigator"
    /\ returned = <<FORWARD, FORWARD, FALSE>>

\* Every later step of a stuck navigator: FORWARD again, rejected again, and
\* nothing but actions_taken changes
StuckStep ==
    /\ returned' = <<FORWARD, FORWARD, FALSE>>
    /\ Keeps({"actions_taken", "signed_angle_to_target"})
    /\ SameAngle(agent'.signed_angle_to_target, agent.signed_angle_to_target)
    /\ num_actions_taken(agent') = num_actions_taken(agent) + 1

\* C25 as stated: the rejected FORWARD of a perfect navigator leaves position,
\* rotation, target and current_box unchanged, and every step after it is a
\* rejected FORWARD that changes actions_taken only.
C25_RejectedStepChangesNothing ==
    [][ /\ RejectedForward =>
              /\ agent'.position = agent.position
              /\ agent'.rotation = agent.rotation
              /\ agent'.target = agent.target
              /\ agent'.current_box = agent.current_box
        /\ LastRejected => StuckStep ]_vars

\* C25: a perfect navigator whose FORWARD move is rejected is stuck for good:
\* the rejected step leaves position and rotation unchanged and target and
\* current_box as its own hand-off check left them (unchanged when no hand-off
\* was due), and every step after it is a rejected FORWARD that changes
\* actions_taken only.
C25_StuckForGood ==
    [][ /\ RejectedForward =>
              /\ agent'.position = agent.position
              /\ agent'.rotation = agent.rotation
              /\ AsAfterHandOff
              /\ ~HandOffDue =>
                    /\ agent'.target = agent.target
                    /\ agent'.current_box = agent.current_box
        /\ LastRejected => StuckStep ]_vars

\* C25 witness: a perfect navigator on the first target of the L, handed on
\* to the second box and facing its target with a step of four, has been
\* counted MaxCalls times and stands where no move can have brought it: it has
\* turned at most twice and been rejected the other times.
C25_Witness ==
    /\ LastRejected
    /\ calls = MaxCalls
    /\ num_actions_taken(agent) = MaxCalls
    /\ agent.env = EnvTwo
    /\ agent.position = Pt(1, 3)
    /\ agent.rotation = 0
    /\ agent.movement_increment = 4
    /\ agent.current_box = EnvTwo[2]
    /\ agent.target = Pt(3, 3)

\* What a wandering navigator has and a perfect navigator has not
WanderingOnly == {"possible_actions", "chance_of_random_action"}

\* C26: a wandering navigator with chance_of_random_action = 0 and a perfect
\* navigator started from the same position, rotation and environment take
\* the same action at every step (the same triple is returned, and neither
\* raises) and stay in the same state: every attribute of the perfect
\* navigator but its class has the same value in the wandering one.
C26_WanderingWithoutChanceIsPerfect ==
    /\ agent.class = "WanderingNavigator"
    /\ agent.chance_of_random_action = 0
    /\ sim.twin.class = "PerfectNavigator"
    /\ returned = sim.returned
    /\ raised = sim.raised
    /\ raised = NoException
    /\ DOMAIN agent = DOMAIN sim.twin \cup WanderingOnly
    /\ \A attribute \in DOMAIN sim.twin \ {"class"} :
          agent[attribute] = sim.twin[attribute]

\* C26 witness: after MaxCalls steps, a hand-off and a move among them, the
\* two are at the same place in the second box and returned the same triple.
C26_Witness ==
    /\ calls = MaxCalls
    /\ num_actions_taken(sim.twin) = MaxCalls
    /\ agent.chance_of_random_action = 0
    /\ agent.current_box # agent.env[1]
    /\ agent.position # agent.env[1].target
    /\ Moved = TRUE
    /\ returned = sim.returned
    /\ agent.position = sim.twin.position
    /\ agent.rotation = sim.twin.rotation
    /\ agent.current_box = sim.twin.current_box

====
